---- MODULE Spec2Model ----
(***************************************************************************)
(* Solution Explorer viewer: the navigation store (viewer/src/store.ts),   *)
(* the graph component's layout effect (ArchitectureGraph.tsx) and the     *)
(* edge handle geometry (utils/layout.ts).                                 *)
(*                                                                         *)
(* A nullable id is the string NULL; a nullable object is a sequence of    *)
(* length 0 (null) or 1.                                                   *)
(***************************************************************************)
EXTENDS Integers, Sequences, FiniteSets, TLC

VARIABLES
    architecture,           \* store.architecture: None or Some(arch)
    selectedComponentId,    \* store.selectedComponentId
    breadcrumbs,            \* store.breadcrumbs
    drillLevel,             \* store.drillLevel
    activePanel,            \* store.activePanel
    detailItem,             \* store.detailItem: None or Some(item)
    reviewMode,             \* store.reviewMode
    annotatingComponentId,  \* store.annotatingComponentId
    nodes,                  \* ArchitectureGraph: displayed nodes (useNodesState)
    edges,                  \* ArchitectureGraph: displayed edges (useEdgesState)
    inflight,               \* layout promises not yet settled, oldest first
    timerPending,           \* the timer held by layoutTimeout.current is pending
    orphanTimers,           \* pending fit-view timers no longer held by the ref
    frames,                 \* pending requestAnimationFrame callbacks of onNodesChange
    last,                   \* history: the last store call and its argument
    roundTrip,              \* history: a drillInto, then a drillUp right after it
    lastApplied,            \* history: how the last layout call left nodes/edges
    handles,                \* the last computeOptimalHandles call: arguments, result
    probe                   \* the last call of another pure function: arguments, result

storeVars == <<architecture, selectedComponentId, breadcrumbs, drillLevel,
               activePanel, detailItem, reviewMode, annotatingComponentId>>
graphVars == <<nodes, edges, inflight, timerPending, orphanTimers, frames, lastApplied>>
histVars == <<last, roundTrip>>
geomVars == <<handles, probe>>
vars == <<storeVars, graphVars, histVars, geomVars>>

NULL == "null"
None == <<>>
Some(x) == <<x>>
\* Op applied to the value of x, with x evaluated once (a local constant).
Let(x, Op(_)) == CHOOSE y \in {Op(v) : v \in {x}} : TRUE

\* Largest index handed to navigateToBreadcrumb (indexes start at -1).
MaxIndex == 4
\* Most layout calls in flight at one time.
MaxInflight == 2
\* Most pending fit-view timers that layoutTimeout.current no longer holds.
MaxOrphanTimers == 1
\* Node positions handed to computeOptimalHandles lie in 0 .. MaxCoord.
MaxCoord == 3
\* Most nodes handed to one layout call, and most children in its answer.
MaxLayoutNodes == 3
\* Most requestAnimationFrame callbacks pending at one time.
MaxFrames == 1
\* Height of the generated component trees (a lone root has height 0).
MaxHeight == 2

(***************************************************************************)
(* The loaded data: component trees and relationship lists.                *)
(***************************************************************************)
Leaf(id, name, type, files) ==
    [id |-> id, name |-> name, type |-> type, files |-> files, children |-> <<>>]
Node(id, name, type, files, children) ==
    [id |-> id, name |-> name, type |-> type, files |-> files, children |-> children]
Rel(source, target, type) == [source |-> source, target |-> target, type |-> type]
FileInfo(path, symbols) == [path |-> path, symbols |-> symbols]
Symbol(id, file) == [id |-> id, file |-> file]

\* project p [ web-client a [ module m [ module g ] ], library l ], api-server s
ArchA ==
    [components |->
        << Node("p", "P", "project", <<>>,
               << Node("a", "A", "web-client", <<"a.ts">>,
                      << Node("m", "M", "module", <<"m.ts">>,
                             << Leaf("g", "G", "module", <<"g.ts">>) >>) >>),
                  Leaf("l", "L", "library", <<>>) >>),
           Leaf("s", "S", "api-server", <<"s1.ts", "s2.ts">>) >>,
     relationships |->
        << Rel("a", "s", "http"), Rel("a", "l", "import"), Rel("m", "g", "import"),
           Rel("s", "hidden", "database"), Rel("g", "a", "import") >>,
     files |->
        << FileInfo("a.ts", <<"fnA">>), FileInfo("m.ts", <<>>),
           FileInfo("g.ts", <<"fnG", "typeG">>), FileInfo("s1.ts", <<"fnS">>),
           FileInfo("readme.md", <<"docR">>) >>,
     symbols |->
        << Symbol("fnA", "a.ts"), Symbol("fnG", "g.ts"), Symbol("typeG", "g.ts"),
           Symbol("fnS", "s1.ts"), Symbol("docR", "readme.md") >>]

\* web-client w [ module n ], service v
ArchG ==
    [components |->
        << Node("w", "W", "web-client", <<"w.ts">>,
               << Leaf("n", "N", "module", <<"n.ts">>) >>),
           Leaf("v", "V", "service", <<>>) >>,
     relationships |->
        << Rel("w", "v", "http"), Rel("n", "v", "import"), Rel("v", "w", "websocket") >>,
     files |-> <<>>,
     symbols |-> <<>>]

\* repository r [ module x [ module y ], package e ], module z
ArchB ==
    [components |->
        << Node("r", "R", "repository", <<>>,
               << Node("x", "X", "module", <<"x.ts">>,
                      << Leaf("y", "Y", "module", <<"y.ts">>) >>),
                  Leaf("e", "E", "package", <<>>) >>),
           Leaf("z", "Z", "module", <<"z.ts">>) >>,
     relationships |->
        << Rel("x", "e", "import"), Rel("y", "z", "import"), Rel("r", "z", "import"),
           Rel("z", "nowhere", "http") >>,
     files |-> << FileInfo("x.ts", <<"fnX">>), FileInfo("z.ts", <<"fnZ">>) >>,
     symbols |-> << Symbol("fnX", "x.ts"), Symbol("fnZ", "z.ts") >>]

\* module k [ module ka (3 files), api-server kb ]
ArchC ==
    [components |->
        << Node("k", "K", "module", <<>>,
               << Leaf("ka", "KA", "module", <<"ka1.ts", "ka2.ts", "ka3.ts">>),
                  Leaf("kb", "KB", "api-server", <<"kb.ts">>) >>) >>,
     relationships |-> << Rel("ka", "kb", "import") >>,
     files |-> <<>>,
     symbols |-> <<>>]

\* module d [ module dw [ web-client dc, module dm ], module dn ]
ArchD ==
    [components |->
        << Node("d", "D", "module", <<>>,
               << Node("dw", "DW", "module", <<>>,
                      << Leaf("dc", "DC", "web-client", <<"dc.ts">>),
                         Leaf("dm", "DM", "module", <<"dm.ts">>) >>),
                  Leaf("dn", "DN", "module", <<"dn.ts">>) >>) >>,
     relationships |-> << Rel("dc", "dn", "import") >>,
     files |-> <<>>,
     symbols |-> <<>>]

Archs == {ArchA, ArchB, ArchG, ArchC, ArchD}

(***************************************************************************)
(* Tree helpers of store.ts.                                               *)
(***************************************************************************)
RECURSIVE findComponent(_, _)
findComponent(components, id) ==
    IF components = <<>> THEN None
    ELSE LET comp == Head(components) IN
         IF comp.id = id THEN Some(comp)
         ELSE LET found == findComponent(comp.children, id) IN
              IF found # None THEN found
              ELSE findComponent(Tail(components), id)

BreadcrumbItem(comp) == [id |-> comp.id, name |-> comp.name, type |-> comp.type]

\* The inner search of buildBreadcrumbs: the trail pushed on success, or the
\* empty trail when the target is not below comps.
RECURSIVE search(_, _, _)
search(comps, path, targetId) ==
    IF comps = <<>> THEN <<>>
    ELSE LET comp == Head(comps)
             current == Append(path, BreadcrumbItem(comp))
         IN  IF comp.id = targetId THEN current
             ELSE LET below == search(comp.children, current, targetId) IN
                  IF below # <<>> THEN below
                  ELSE search(Tail(comps), path, targetId)

\* Mutant: the path is not threaded through the search, only the target's
\* own crumb is pushed.
buildBreadcrumbs_dropsPath(components, targetId) ==
    LET t == search(components, <<>>, targetId) IN
    IF t = <<>> THEN <<>> ELSE <<t[Len(t)]>>

buildBreadcrumbs(components, targetId) ==
    search(components, <<>>, targetId)

\* Every component object of a forest (what the UI can hand to drillInto).
RECURSIVE ComponentsOf(_)
ComponentsOf(components) ==
    IF components = <<>> THEN {}
    ELSE {Head(components)} \cup ComponentsOf(Head(components).children)
                            \cup ComponentsOf(Tail(components))

AllComponents == UNION {ComponentsOf(a.components) : a \in Archs}
AllIds == {c.id : c \in AllComponents}
UnknownId == "nonexistent"

Loaded == architecture # None
Arch == architecture[1]

(***************************************************************************)
(* Visible set and relationship filter (store.ts, utils/layout.ts).        *)
(***************************************************************************)
HERO_TYPES ==
    {"api-server", "mobile-client", "ios-client", "android-client", "web-client",
     "watch-app", "desktop-app", "cli-tool", "service", "application"}

isHeroType(type) == type \in HERO_TYPES

CLIENT_TYPES ==
    {"mobile-client", "ios-client", "android-client", "web-client", "watch-app",
     "desktop-app", "cli-tool"}

SERVER_TYPES == {"api-server", "service"}

\* Mutant: a wrapper is unwrapped by one level only (its direct hero children).
RECURSIVE collectHeroComponents_shallow(_)
collectHeroComponents_shallow(components) ==
    IF components = <<>> THEN <<>>
    ELSE LET comp == Head(components)
             below == SelectSeq(comp.children, LAMBDA c : isHeroType(c.type))
             collected ==
                 IF comp.type = "project" THEN below
                 ELSE IF isHeroType(comp.type) THEN <<comp>>
                 ELSE (IF Len(below) > 0 THEN below ELSE <<comp>>)
         IN  collected \o collectHeroComponents_shallow(Tail(components))

\* Mutant: the walk goes on below a hero-type component.
RECURSIVE collectHeroComponents_intoHeroes(_)
collectHeroComponents_intoHeroes(components) ==
    IF components = <<>> THEN <<>>
    ELSE LET comp == Head(components)
             collected(below) ==
                 IF comp.type = "project" THEN below
                 ELSE IF comp.type = "repository"
                 THEN (IF Len(below) > 0 THEN below ELSE <<comp>>)
                 ELSE IF isHeroType(comp.type) THEN <<comp>> \o below
                 ELSE (IF Len(below) > 0 THEN below ELSE <<comp>>)
         IN  Let(collectHeroComponents_intoHeroes(comp.children), collected)
                 \o collectHeroComponents_intoHeroes(Tail(components))

\* Mutant: the collected components are put in front of the result (unshift
\* for push), which reverses the order.
RECURSIVE collectHeroComponents_reversed(_)
collectHeroComponents_reversed(components) ==
    IF components = <<>> THEN <<>>
    ELSE LET comp == Head(components)
             collected(below) ==
                 IF comp.type = "project" THEN below
                 ELSE IF comp.type = "repository"
                 THEN (IF Len(below) > 0 THEN below ELSE <<comp>>)
                 ELSE IF isHeroType(comp.type) THEN <<comp>>
                 ELSE (IF Len(below) > 0 THEN below ELSE <<comp>>)
         IN  collectHeroComponents_reversed(Tail(components))
                 \o Let(collectHeroComponents_reversed(comp.children), collected)

RECURSIVE collectHeroComponents(_)
collectHeroComponents(components) ==
    IF components = <<>> THEN <<>>
    ELSE LET comp == Head(components)
             collected(below) ==
                 IF comp.type = "project" THEN below
                 ELSE IF comp.type = "repository"
                 THEN (IF Len(below) > 0 THEN below ELSE <<comp>>)
                 ELSE IF isHeroType(comp.type) THEN <<comp>>
                 ELSE (IF Len(below) > 0 THEN below ELSE <<comp>>)
         IN  Let(collectHeroComponents(comp.children), collected)
                 \o collectHeroComponents(Tail(components))

\* Mutant: a project is replaced by its children even when it has none.
RECURSIVE unwrapProjects_alwaysChildren(_)
unwrapProjects_alwaysChildren(components) ==
    IF components = <<>> THEN <<>>
    ELSE LET comp == Head(components)
             here == IF comp.type = "project" THEN comp.children ELSE <<comp>>
         IN  here \o unwrapProjects_alwaysChildren(Tail(components))

\* The fallback loop of flattenTopLevel: one-level unwrap of project roots.
RECURSIVE unwrapProjects(_)
unwrapProjects(components) ==
    IF components = <<>> THEN <<>>
    ELSE LET comp == Head(components)
             here == IF comp.type = "project" /\ Len(comp.children) > 0
                     THEN comp.children ELSE <<comp>>
         IN  here \o unwrapProjects(Tail(components))

\* Mutant: the heroes are sorted to the front of the list.
flattenTopLevel_heroesFirst(components) ==
    Let(Let(collectHeroComponents(components),
            LAMBDA heroes : IF Len(heroes) > 0 THEN heroes
                            ELSE unwrapProjects(components)),
        LAMBDA list : SelectSeq(list, LAMBDA c : isHeroType(c.type))
                          \o SelectSeq(list, LAMBDA c : ~isHeroType(c.type)))

flattenTopLevel(components) ==
    Let(collectHeroComponents(components),
        LAMBDA heroes : IF Len(heroes) > 0 THEN heroes
                        ELSE unwrapProjects(components))

getComponentById(id) ==
    IF ~Loaded THEN None ELSE findComponent(Arch.components, id)

\* Mutant: an unknown drill level falls back to the top-level view.
getVisibleComponents_fallsBackToTop ==
    IF ~Loaded THEN <<>>
    ELSE IF drillLevel = NULL THEN flattenTopLevel(Arch.components)
    ELSE LET parent == findComponent(Arch.components, drillLevel) IN
         IF parent = None THEN flattenTopLevel(Arch.components)
         ELSE IF Len(parent[1].children) > 0 THEN parent[1].children
         ELSE <<parent[1]>>

\* Mutant: a drilled component is always replaced by its children.
getVisibleComponents_childrenOnly ==
    IF ~Loaded THEN <<>>
    ELSE IF drillLevel = NULL THEN flattenTopLevel(Arch.components)
    ELSE LET parent == findComponent(Arch.components, drillLevel) IN
         IF parent = None THEN <<>>
         ELSE parent[1].children

getVisibleComponents ==
    IF ~Loaded THEN <<>>
    ELSE IF drillLevel = NULL THEN flattenTopLevel(Arch.components)
    ELSE LET parent == findComponent(Arch.components, drillLevel) IN
         IF parent = None THEN <<>>
         ELSE IF Len(parent[1].children) > 0 THEN parent[1].children
         ELSE <<parent[1]>>

SeqIds(comps) == Let(comps, LAMBDA cs : {cs[i].id : i \in 1 .. Len(cs)})

\* Mutant: || instead of && in the filter.
getComponentRelationships_either ==
    IF ~Loaded THEN <<>>
    ELSE Let(SeqIds(getVisibleComponents),
             LAMBDA visibleIds :
                 SelectSeq(Arch.relationships,
                           LAMBDA r : r.source \in visibleIds \/ r.target \in visibleIds))

getComponentRelationships ==
    IF ~Loaded THEN <<>>
    ELSE Let(SeqIds(getVisibleComponents),
             LAMBDA visibleIds :
                 SelectSeq(Arch.relationships,
                           LAMBDA r : r.source \in visibleIds /\ r.target \in visibleIds))

\* array.includes / Set.has on a sequence.
Includes(seq, x) == \E i \in 1 .. Len(seq) : seq[i] = x

getComponentFiles(componentId) ==
    IF ~Loaded THEN <<>>
    ELSE LET comp == findComponent(Arch.components, componentId) IN
         IF comp = None THEN <<>>
         ELSE SelectSeq(Arch.files, LAMBDA f : Includes(comp[1].files, f.path))

getComponentSymbols(componentId) ==
    IF ~Loaded THEN <<>>
    ELSE LET files == getComponentFiles(componentId)
             symbolIds == UNION {{files[i].symbols[j] : j \in 1 .. Len(files[i].symbols)} :
                                 i \in 1 .. Len(files)}
         IN  SelectSeq(Arch.symbols, LAMBDA sym : sym.id \in symbolIds)

\* History of the calls made on the store.  roundTrip remembers the state a
\* drillInto left behind, through the drillUp that directly follows it.
\* outcome: "ok" (set() was called), "noop" (early return), "threw".
\* trail: the length of breadcrumbs when the call was made.
Record(op, arg, outcome) ==
    /\ last' = [op |-> op, arg |-> arg, outcome |-> outcome,
                trail |-> Len(breadcrumbs)]
    /\ roundTrip' =
          IF op = "drillInto" /\ outcome = "ok"
          THEN Some([x |-> arg, level |-> drillLevel, crumbs |-> breadcrumbs,
                     up |-> FALSE])
          ELSE IF op = "drillUp" /\ roundTrip # None /\ ~roundTrip[1].up
          THEN Some([roundTrip[1] EXCEPT !.up = TRUE])
          ELSE None

(***************************************************************************)
(* Store actions.                                                          *)
(***************************************************************************)
Init ==
    /\ architecture = None
    /\ selectedComponentId = NULL
    /\ breadcrumbs = <<>>
    /\ drillLevel = NULL
    /\ activePanel = NULL
    /\ detailItem = None
    /\ reviewMode = FALSE
    /\ annotatingComponentId = NULL
    /\ last = [op |-> "init", arg |-> NULL, outcome |-> "ok", trail |-> 0]
    /\ roundTrip = None
    /\ nodes = <<>>
    /\ edges = <<>>
    /\ inflight = <<>>
    /\ timerPending = FALSE
    /\ orphanTimers = 0
    /\ lastApplied = "none"
    /\ handles = None
    /\ frames = 0
    /\ probe = None

\* App.tsx loads one architecture.json per session.
setArchitecture(arch) ==
    /\ ~Loaded
    /\ architecture' = Some(arch)
    /\ UNCHANGED <<selectedComponentId, breadcrumbs, drillLevel, activePanel,
                   detailItem, reviewMode, annotatingComponentId>>
    /\ Record("setArchitecture", NULL, "ok")

\* Mutant: clearing the selection also leaves the drill level.
selectComponent_resetsDrill(id) ==
    /\ IF ~Loaded \/ id = NULL
       THEN /\ selectedComponentId' = NULL
            /\ detailItem' = None
            /\ activePanel' = (IF reviewMode THEN activePanel ELSE NULL)
            /\ annotatingComponentId' = NULL
            /\ drillLevel' = NULL
            /\ breadcrumbs' = <<>>
       ELSE LET comp == findComponent(Arch.components, id) IN
            /\ UNCHANGED <<drillLevel, breadcrumbs>>
            /\ IF comp # None
               THEN IF reviewMode
                    THEN /\ selectedComponentId' = id
                         /\ annotatingComponentId' = id
                         /\ UNCHANGED <<detailItem, activePanel>>
                    ELSE /\ selectedComponentId' = id
                         /\ detailItem' = Some([type |-> "component", data |-> comp[1]])
                         /\ activePanel' = "detail"
                         /\ UNCHANGED annotatingComponentId
               ELSE UNCHANGED <<selectedComponentId, detailItem, activePanel,
                                annotatingComponentId>>
    /\ UNCHANGED <<architecture, reviewMode>>
    /\ Record("selectComponent", id,
              IF Loaded /\ id # NULL /\ findComponent(Arch.components, id) = None
              THEN "noop" ELSE "ok")

\* Mutant: an id that is not found clears the selection.
selectComponent_clearsUnknown(id) ==
    /\ IF ~Loaded \/ id = NULL
       THEN /\ selectedComponentId' = NULL
            /\ detailItem' = None
            /\ activePanel' = (IF reviewMode THEN activePanel ELSE NULL)
            /\ annotatingComponentId' = NULL
       ELSE LET comp == findComponent(Arch.components, id) IN
            IF comp # None
            THEN IF reviewMode
                 THEN /\ selectedComponentId' = id
                      /\ annotatingComponentId' = id
                      /\ UNCHANGED <<detailItem, activePanel>>
                 ELSE /\ selectedComponentId' = id
                      /\ detailItem' = Some([type |-> "component", data |-> comp[1]])
                      /\ activePanel' = "detail"
                      /\ UNCHANGED annotatingComponentId
            ELSE /\ selectedComponentId' = NULL
                 /\ detailItem' = None
                 /\ UNCHANGED <<activePanel, annotatingComponentId>>
    /\ UNCHANGED <<architecture, breadcrumbs, drillLevel, reviewMode>>
    /\ Record("selectComponent", id,
              IF Loaded /\ id # NULL /\ findComponent(Arch.components, id) = None
              THEN "noop" ELSE "ok")

selectComponent(id) ==
    /\ IF ~Loaded \/ id = NULL
       THEN /\ selectedComponentId' = NULL
            /\ detailItem' = None
            /\ activePanel' = (IF reviewMode THEN activePanel ELSE NULL)
            /\ annotatingComponentId' = NULL
       ELSE LET comp == findComponent(Arch.components, id) IN
            IF comp # None
            THEN IF reviewMode
                 THEN /\ selectedComponentId' = id
                      /\ annotatingComponentId' = id
                      /\ UNCHANGED <<detailItem, activePanel>>
                 ELSE /\ selectedComponentId' = id
                      /\ detailItem' = Some([type |-> "component", data |-> comp[1]])
                      /\ activePanel' = "detail"
                      /\ UNCHANGED annotatingComponentId
            ELSE UNCHANGED <<selectedComponentId, detailItem, activePanel,
                             annotatingComponentId>>
    /\ UNCHANGED <<architecture, breadcrumbs, drillLevel, reviewMode>>
    /\ Record("selectComponent", id,
              IF Loaded /\ id # NULL /\ findComponent(Arch.components, id) = None
              THEN "noop" ELSE "ok")

\* Mutant: the substructure guard is missing.
drillInto_noGuard(component) ==
    /\ IF ~Loaded
       THEN /\ UNCHANGED <<drillLevel, breadcrumbs, selectedComponentId, detailItem>>
            /\ Record("drillInto", component.id, "noop")
       ELSE LET crumbs == buildBreadcrumbs(Arch.components, component.id) IN
            /\ drillLevel' = component.id
            /\ breadcrumbs' = crumbs
            /\ selectedComponentId' = NULL
            /\ detailItem' = None
            /\ Record("drillInto", component.id, "ok")
    /\ UNCHANGED <<architecture, activePanel, reviewMode, annotatingComponentId>>

\* Mutant: the selection is cleared before the substructure guard returns.
drillInto_clearsFirst(component) ==
    /\ IF ~Loaded
       THEN /\ UNCHANGED <<drillLevel, breadcrumbs, selectedComponentId, detailItem>>
            /\ Record("drillInto", component.id, "noop")
       ELSE IF Len(component.children) = 0 /\ Len(component.files) = 0
       THEN /\ selectedComponentId' = NULL
            /\ detailItem' = None
            /\ UNCHANGED <<drillLevel, breadcrumbs>>
            /\ Record("drillInto", component.id, "noop")
       ELSE LET crumbs == buildBreadcrumbs(Arch.components, component.id) IN
            /\ drillLevel' = component.id
            /\ breadcrumbs' = crumbs
            /\ selectedComponentId' = NULL
            /\ detailItem' = None
            /\ Record("drillInto", component.id, "ok")
    /\ UNCHANGED <<architecture, activePanel, reviewMode, annotatingComponentId>>

\* Mutant: a target that is not found gets a trail of its own crumb.
drillInto_selfCrumb(component) ==
    /\ IF ~Loaded
       THEN /\ UNCHANGED <<drillLevel, breadcrumbs, selectedComponentId, detailItem>>
            /\ Record("drillInto", component.id, "noop")
       ELSE IF Len(component.children) = 0 /\ Len(component.files) = 0
       THEN /\ UNCHANGED <<drillLevel, breadcrumbs, selectedComponentId, detailItem>>
            /\ Record("drillInto", component.id, "noop")
       ELSE LET crumbs == buildBreadcrumbs(Arch.components, component.id) IN
            /\ drillLevel' = component.id
            /\ breadcrumbs' = (IF crumbs = <<>> THEN <<BreadcrumbItem(component)>>
                               ELSE crumbs)
            /\ selectedComponentId' = NULL
            /\ detailItem' = None
            /\ Record("drillInto", component.id, "ok")
    /\ UNCHANGED <<architecture, activePanel, reviewMode, annotatingComponentId>>

drillInto(component) ==
    /\ IF ~Loaded
       THEN /\ UNCHANGED <<drillLevel, breadcrumbs, selectedComponentId, detailItem>>
            /\ Record("drillInto", component.id, "noop")
       ELSE IF Len(component.children) = 0 /\ Len(component.files) = 0
       THEN /\ UNCHANGED <<drillLevel, breadcrumbs, selectedComponentId, detailItem>>
            /\ Record("drillInto", component.id, "noop")
       ELSE LET crumbs == buildBreadcrumbs(Arch.components, component.id) IN
            /\ drillLevel' = component.id
            /\ breadcrumbs' = crumbs
            /\ selectedComponentId' = NULL
            /\ detailItem' = None
            /\ Record("drillInto", component.id, "ok")
    /\ UNCHANGED <<architecture, activePanel, reviewMode, annotatingComponentId>>

\* Mutant: drillUp always returns to the top level.
drillUp_alwaysTop ==
    /\ drillLevel' = NULL
    /\ breadcrumbs' = <<>>
    /\ selectedComponentId' = NULL
    /\ UNCHANGED <<architecture, activePanel, detailItem, reviewMode,
                   annotatingComponentId>>
    /\ Record("drillUp", NULL, "ok")

\* Mutant: parent read at length - 1 instead of length - 2.
drillUp_lastCrumb ==
    /\ IF Len(breadcrumbs) <= 1
       THEN /\ drillLevel' = NULL
            /\ breadcrumbs' = <<>>
            /\ selectedComponentId' = NULL
       ELSE LET parent == breadcrumbs[Len(breadcrumbs)]
                newCrumbs == SubSeq(breadcrumbs, 1, Len(breadcrumbs) - 1)
            IN  /\ drillLevel' = parent.id
                /\ breadcrumbs' = newCrumbs
                /\ selectedComponentId' = NULL
    /\ UNCHANGED <<architecture, activePanel, detailItem, reviewMode,
                   annotatingComponentId>>
    /\ Record("drillUp", NULL, "ok")

\* Mutant: going up to a parent level keeps the selection.
drillUp_keepsSelection ==
    /\ IF Len(breadcrumbs) <= 1
       THEN /\ drillLevel' = NULL
            /\ breadcrumbs' = <<>>
            /\ selectedComponentId' = NULL
       ELSE LET parent == breadcrumbs[Len(breadcrumbs) - 1]
                newCrumbs == SubSeq(breadcrumbs, 1, Len(breadcrumbs) - 1)
            IN  /\ drillLevel' = parent.id
                /\ breadcrumbs' = newCrumbs
                /\ UNCHANGED selectedComponentId
    /\ UNCHANGED <<architecture, activePanel, detailItem, reviewMode,
                   annotatingComponentId>>
    /\ Record("drillUp", NULL, "ok")

\* Mutant: at a root level drillUp returns without resetting.
drillUp_returnsAtRoot ==
    /\ IF Len(breadcrumbs) <= 1
       THEN UNCHANGED <<drillLevel, breadcrumbs, selectedComponentId>>
       ELSE LET parent == breadcrumbs[Len(breadcrumbs) - 1]
                newCrumbs == SubSeq(breadcrumbs, 1, Len(breadcrumbs) - 1)
            IN  /\ drillLevel' = parent.id
                /\ breadcrumbs' = newCrumbs
                /\ selectedComponentId' = NULL
    /\ UNCHANGED <<architecture, activePanel, detailItem, reviewMode,
                   annotatingComponentId>>
    /\ Record("drillUp", NULL, "ok")

drillUp ==
    /\ IF Len(breadcrumbs) <= 1
       THEN /\ drillLevel' = NULL
            /\ breadcrumbs' = <<>>
            /\ selectedComponentId' = NULL
       ELSE LET parent == breadcrumbs[Len(breadcrumbs) - 1]
                newCrumbs == SubSeq(breadcrumbs, 1, Len(breadcrumbs) - 1)
            IN  /\ drillLevel' = parent.id
                /\ breadcrumbs' = newCrumbs
                /\ selectedComponentId' = NULL
    /\ UNCHANGED <<architecture, activePanel, detailItem, reviewMode,
                   annotatingComponentId>>
    /\ Record("drillUp", NULL, "ok")

\* Mutant: slice(0, index) instead of slice(0, index + 1).
navigateToBreadcrumb_sliceIndex(index) ==
    /\ IF index < 0
       THEN /\ drillLevel' = NULL
            /\ breadcrumbs' = <<>>
            /\ selectedComponentId' = NULL
            /\ Record("navigateToBreadcrumb", index, "ok")
       ELSE IF index >= Len(breadcrumbs)
       THEN /\ UNCHANGED <<drillLevel, breadcrumbs, selectedComponentId>>
            /\ Record("navigateToBreadcrumb", index, "threw")
       ELSE LET crumb == breadcrumbs[index + 1] IN
            /\ drillLevel' = crumb.id
            /\ breadcrumbs' = SubSeq(breadcrumbs, 1, index)
            /\ selectedComponentId' = NULL
            /\ Record("navigateToBreadcrumb", index, "ok")
    /\ UNCHANGED <<architecture, activePanel, detailItem, reviewMode,
                   annotatingComponentId>>

\* Mutant: the trail is cut but drillLevel is not moved to the crumb.
navigateToBreadcrumb_keepsLevel(index) ==
    /\ IF index < 0
       THEN /\ drillLevel' = NULL
            /\ breadcrumbs' = <<>>
            /\ selectedComponentId' = NULL
            /\ Record("navigateToBreadcrumb", index, "ok")
       ELSE IF index >= Len(breadcrumbs)
       THEN /\ UNCHANGED <<drillLevel, breadcrumbs, selectedComponentId>>
            /\ Record("navigateToBreadcrumb", index, "threw")
       ELSE /\ UNCHANGED drillLevel
            /\ breadcrumbs' = SubSeq(breadcrumbs, 1, index + 1)
            /\ selectedComponentId' = NULL
            /\ Record("navigateToBreadcrumb", index, "ok")
    /\ UNCHANGED <<architecture, activePanel, detailItem, reviewMode,
                   annotatingComponentId>>

\* breadcrumbs[index] is undefined for index >= length: reading .id of it
\* throws a TypeError before set() is reached.
navigateToBreadcrumb(index) ==
    /\ IF index < 0
       THEN /\ drillLevel' = NULL
            /\ breadcrumbs' = <<>>
            /\ selectedComponentId' = NULL
            /\ Record("navigateToBreadcrumb", index, "ok")
       ELSE IF index >= Len(breadcrumbs)
       THEN /\ UNCHANGED <<drillLevel, breadcrumbs, selectedComponentId>>
            /\ Record("navigateToBreadcrumb", index, "threw")
       ELSE LET crumb == breadcrumbs[index + 1] IN
            /\ drillLevel' = crumb.id
            /\ breadcrumbs' = SubSeq(breadcrumbs, 1, index + 1)
            /\ selectedComponentId' = NULL
            /\ Record("navigateToBreadcrumb", index, "ok")
    /\ UNCHANGED <<architecture, activePanel, detailItem, reviewMode,
                   annotatingComponentId>>

closeDetail ==
    /\ detailItem' = None
    /\ activePanel' = NULL
    /\ UNCHANGED <<architecture, selectedComponentId, breadcrumbs, drillLevel,
                   reviewMode, annotatingComponentId>>
    /\ Record("closeDetail", NULL, "ok")

toggleReviewMode ==
    /\ reviewMode' = ~reviewMode
    /\ annotatingComponentId' = NULL
    /\ activePanel' = (IF ~reviewMode THEN activePanel
                       ELSE IF activePanel = "review" THEN NULL ELSE activePanel)
    /\ UNCHANGED <<architecture, selectedComponentId, breadcrumbs, drillLevel,
                   detailItem>>
    /\ Record("toggleReviewMode", NULL, "ok")

\* The component objects the UI can pass to drillInto: the components of the
\* loaded tree (tree navigator, graph nodes, detail panel).
DrillArgs == IF Loaded THEN ComponentsOf(Arch.components) ELSE AllComponents

\* Ids handed to selectComponent: clicks on components of the loaded tree,
\* a stale or unknown id, and null (pane click).
SelectArgs ==
    (IF Loaded THEN {c.id : c \in ComponentsOf(Arch.components)} ELSE {})
        \cup {UnknownId, NULL}

Next ==
    \/ \E arch \in Archs : setArchitecture(arch) /\ UNCHANGED <<graphVars, geomVars>>
    \/ \E id \in SelectArgs : selectComponent(id) /\ UNCHANGED <<graphVars, geomVars>>
    \/ \E component \in DrillArgs : drillInto(component) /\ UNCHANGED <<graphVars, geomVars>>
    \/ drillUp /\ UNCHANGED <<graphVars, geomVars>>
    \/ \E index \in -1 .. MaxIndex : navigateToBreadcrumb(index) /\ UNCHANGED <<graphVars, geomVars>>
    \/ closeDetail /\ UNCHANGED <<graphVars, geomVars>>
    \/ toggleReviewMode /\ UNCHANGED <<graphVars, geomVars>>

Spec == Init /\ [][Next]_vars

\* Component objects that are not part of any loaded tree: a component with
\* files, one whose only child is a component of ArchA, one with neither.
ForeignComponents ==
    { Leaf("ghost", "Ghost", "module", <<"ghost.ts">>),
      Node("husk", "Husk", "service", <<>>,
           << Leaf("g", "G", "module", <<"g.ts">>) >>),
      Leaf("void", "Void", "module", <<>>) }

\* The store, with drillInto also handed components that are not in the tree.
NextForeign ==
    \/ Next
    \/ \E component \in ForeignComponents :
          drillInto(component) /\ UNCHANGED <<graphVars, geomVars>>

SpecForeign == Init /\ [][NextForeign]_vars

(***************************************************************************)
(* Properties of the navigation store.                                     *)
(***************************************************************************)
TreeComponents == IF Loaded THEN ComponentsOf(Arch.components) ELSE {}
CompById(id) == CHOOSE c \in TreeComponents : c.id = id
hasSubstructure(c) == Len(c.children) > 0 \/ Len(c.files) > 0
ChildIds(c) == SeqIds(c.children)
\* Id of the parent of the component id, NULL for a root.
ParentId(id) ==
    IF \E c \in TreeComponents : id \in ChildIds(c)
    THEN (CHOOSE c \in TreeComponents : id \in ChildIds(c)).id
    ELSE NULL
\* trail is the chain root, child, grandchild, ... ending at target.
IsRootPath(trail, target) ==
    /\ Len(trail) >= 1
    /\ \A i \in 1 .. Len(trail) :
          /\ \E c \in TreeComponents : c.id = trail[i].id
          /\ trail[i] = BreadcrumbItem(CompById(trail[i].id))
          /\ ParentId(trail[i].id) = (IF i = 1 THEN NULL ELSE trail[i - 1].id)
    /\ trail[Len(trail)].id = target

(***************************************************************************)
(* utils/layout.ts: edge handle geometry.                                  *)
(***************************************************************************)
Abs(n) == IF n < 0 THEN -n ELSE n

Handles(sourceHandle, targetHandle) ==
    [sourceHandle |-> sourceHandle, targetHandle |-> targetHandle]

\* Mutant: > instead of >= in the horizontal test.
computeOptimalHandles_strict(sourcePos, sourceSize, targetPos, targetSize) ==
    LET sx == 2 * sourcePos.x + sourceSize.width
        sy == 2 * sourcePos.y + sourceSize.height
        tx == 2 * targetPos.x + targetSize.width
        ty == 2 * targetPos.y + targetSize.height
        dx == tx - sx
        dy == ty - sy
        absDx == Abs(dx)
        absDy == Abs(dy)
    IN  IF absDx > absDy
        THEN IF dx >= 0 THEN Handles("source-right", "target-left")
             ELSE Handles("source-left", "target-right")
        ELSE IF dy >= 0 THEN Handles("source-bottom", "target-top")
             ELSE Handles("source-top", "target-bottom")

\* Coordinates are integers here, so the centres pos + size/2 are kept in
\* half units (sx, sy, tx, ty are twice the centres); the comparisons of the
\* differences and of their signs do not depend on the unit.
computeOptimalHandles(sourcePos, sourceSize, targetPos, targetSize) ==
    LET sx == 2 * sourcePos.x + sourceSize.width
        sy == 2 * sourcePos.y + sourceSize.height
        tx == 2 * targetPos.x + targetSize.width
        ty == 2 * targetPos.y + targetSize.height
        dx == tx - sx
        dy == ty - sy
        absDx == Abs(dx)
        absDy == Abs(dy)
    IN  IF absDx >= absDy
        THEN IF dx >= 0 THEN Handles("source-right", "target-left")
             ELSE Handles("source-left", "target-right")
        ELSE IF dy >= 0 THEN Handles("source-bottom", "target-top")
             ELSE Handles("source-top", "target-bottom")

Positions == [x : 0 .. MaxCoord, y : 0 .. MaxCoord]
\* Measured node sizes (odd sizes put the centre on a half unit).
Sizes == {[width |-> 2, height |-> 2], [width |-> 3, height |-> 1]}

\* One call of computeOptimalHandles.
ComputeHandles(sourcePos, sourceSize, targetPos, targetSize) ==
    /\ handles' = Some([sourcePos |-> sourcePos, sourceSize |-> sourceSize,
                        targetPos |-> targetPos, targetSize |-> targetSize,
                        result |-> computeOptimalHandles(sourcePos, sourceSize,
                                                         targetPos, targetSize)])
    /\ UNCHANGED <<storeVars, graphVars, histVars, probe>>

NextHandles ==
    \E sourcePos \in Positions, targetPos \in Positions,
       sourceSize \in Sizes, targetSize \in Sizes :
        ComputeHandles(sourcePos, sourceSize, targetPos, targetSize)

SpecHandles == Init /\ [][NextHandles]_vars

(***************************************************************************)
(* ArchitectureGraph.tsx: the graph component subscribed to the store.     *)
(* A store change re-renders the component; the rawNodes/rawEdges memo,    *)
(* the layout effect and the selection effect run with that render.        *)
(* A displayed node is [id, type, position, measured, opacity], a          *)
(* displayed edge [id, source, target, sourceHandle, targetHandle,         *)
(* opacity]; an unset field is NULL (None for measured).                   *)
(***************************************************************************)
\* The architecture shown in the graph runs.
GraphArchs == {ArchA}

Pos(x, y) == [x |-> x, y |-> y]
\* measured?.width ?? 280, measured?.height ?? 140
DefaultSize == [width |-> 280, height |-> 140]
SizeOf(node) == IF node.measured = None THEN DefaultSize ELSE node.measured[1]
\* style.opacity values written by the selection effect.
Full == "1"
DimNode == "0.15"
DimEdge == "0.08"

rawNodes ==
    IF ~Loaded THEN <<>>
    ELSE Let(getVisibleComponents,
             LAMBDA visible :
                 [i \in 1 .. Len(visible) |->
                     [id |-> visible[i].id, type |-> visible[i].type,
                      position |-> Pos(((i - 1) % 4) * 320, ((i - 1) \div 4) * 200),
                      measured |-> None, opacity |-> NULL]])

rawEdges ==
    IF ~Loaded THEN <<>>
    ELSE LET filtered(nodeIds) ==
                 SelectSeq(getComponentRelationships,
                           LAMBDA r : r.source \in nodeIds /\ r.target \in nodeIds)
             mapped(rels) ==
                 [i \in 1 .. Len(rels) |->
                     [id |-> <<rels[i].source, rels[i].target, i - 1>>,
                      source |-> rels[i].source, target |-> rels[i].target,
                      sourceHandle |-> NULL, targetHandle |-> NULL,
                      opacity |-> NULL]]
         IN  Let(Let(SeqIds(rawNodes), filtered), mapped)

\* The memo recomputes (new array identities) when one of its dependencies
\* changed; only then does the layout effect run again.
MemoDepsChanged ==
    <<architecture', drillLevel', selectedComponentId'>>
        # <<architecture, drillLevel, selectedComponentId>>

\* nodeMap.get(id) for an id of the list.
NodeById(ns, id) == ns[CHOOSE i \in 1 .. Len(ns) : ns[i].id = id]

\* The edge map of the layout callback and of the drag callback: every edge
\* whose endpoints are both in ns gets the optimal handles of their boxes.
assignHandles(ns, es) ==
    [k \in 1 .. Len(es) |->
        IF es[k].source \in SeqIds(ns) /\ es[k].target \in SeqIds(ns)
        THEN LET h == computeOptimalHandles(
                          NodeById(ns, es[k].source).position,
                          SizeOf(NodeById(ns, es[k].source)),
                          NodeById(ns, es[k].target).position,
                          SizeOf(NodeById(ns, es[k].target)))
             IN  [es[k] EXCEPT !.sourceHandle = h.sourceHandle,
                               !.targetHandle = h.targetHandle]
        ELSE es[k]]

\* What elk.layout can answer for a node list: the k-th node of a row, or
\* the first node above a row of the others (two layers).
Arrangements == {"row", "layered"}
ElkPosition(arrangement, k) ==
    IF arrangement = "row" THEN Pos(40 + (k - 1) * 440, 40)
    ELSE IF k = 1 THEN Pos(40, 40)
    ELSE Pos(40 + (k - 1) * 440, 370)
\* One child of the engine's answer; x and y are None when the engine left
\* the coordinate out.
ElkChild(id, x, y) == [id |-> id, x |-> x, y |-> y]
\* layout.children of the answers the graph runs use: Some(children).
ElkAnswers(ns) ==
    {Some([k \in 1 .. Len(ns) |->
              ElkChild(ns[k].id, Some(ElkPosition(arrangement, k).x),
                       Some(ElkPosition(arrangement, k).y))]) :
     arrangement \in Arrangements}

\* children.find((n) => n.id === id): the first child with that id.
find(children, id) ==
    IF \E k \in 1 .. Len(children) : children[k].id = id
    THEN Some(children[CHOOSE k \in 1 .. Len(children) :
                          /\ children[k].id = id
                          /\ \A j \in 1 .. k - 1 : children[j].id # id])
    ELSE None
\* v ?? 0
OrZero(v) == IF v = None THEN 0 ELSE v[1]

\* Mutant: the result is built from the engine's children, in their order.
getLayoutedElements_engineOrder(ns, es, answer) ==
    [nodes |-> IF answer = None THEN ns
               ELSE LET kids == SelectSeq(answer[1], LAMBDA c : c.id \in SeqIds(ns))
                    IN  [k \in 1 .. Len(kids) |->
                            [NodeById(ns, kids[k].id) EXCEPT
                                !.position = Pos(OrZero(kids[k].x), OrZero(kids[k].y))]],
     edges |-> es]

\* The value the promise of getLayoutedElements resolves to, given
\* layout.children of the engine's answer: None when undefined, else
\* Some(children).
getLayoutedElements(ns, es, answer) ==
    [nodes |-> [i \in 1 .. Len(ns) |->
                   LET elkNode == IF answer = None THEN None
                                  ELSE find(answer[1], ns[i].id)
                   IN  IF elkNode # None
                       THEN [ns[i] EXCEPT !.position =
                                Pos(OrZero(elkNode[1].x), OrZero(elkNode[1].y))]
                       ELSE ns[i]],
     edges |-> es]

\* History flags of the pending calls when the effect runs again: none of
\* them is the latest call any more, and they are stale once the visible set
\* they were started for has been replaced by another one.
Superseded(reqs, visibleChanged) ==
    [i \in 1 .. Len(reqs) |->
        [reqs[i] EXCEPT !.latest = FALSE, !.stale = @ \/ visibleChanged]]

\* The part of the component state the effects of one render work on.
GraphState ==
    [nodes |-> nodes, edges |-> edges, inflight |-> inflight,
     timerPending |-> timerPending, lastApplied |-> lastApplied]

\* The "Apply ELK layout" effect: cleanup of the previous run (registered
\* only when that run got past the empty check), then the body.
LayoutEffect(g, oldNodes, newNodes, newEdges) ==
    LET cleanupRegistered == Len(oldNodes) > 0
        visibleChanged == newNodes # oldNodes
    IN  IF Len(newNodes) = 0
        THEN [g EXCEPT !.nodes = <<>>, !.edges = <<>>,
                       !.inflight = Superseded(g.inflight, visibleChanged),
                       !.timerPending = (IF cleanupRegistered THEN FALSE ELSE @),
                       !.lastApplied = "empty"]
        ELSE [g EXCEPT !.timerPending = FALSE,
                       !.inflight = Append(Superseded(g.inflight, visibleChanged),
                                           [nodes |-> newNodes, edges |-> newEdges,
                                            latest |-> TRUE, stale |-> FALSE])]

\* Mutant: only the edges leaving the selected node count as connected.
SelectionEffect_outgoingOnly(g, selected) ==
    IF selected = NULL
    THEN [g EXCEPT !.nodes = [i \in 1 .. Len(g.nodes) |->
                                 [g.nodes[i] EXCEPT !.opacity = Full]],
                   !.edges = [k \in 1 .. Len(g.edges) |->
                                 [g.edges[k] EXCEPT !.opacity = Full]]]
    ELSE IF selected \notin SeqIds(nodes) THEN g
    ELSE LET connected == {k \in 1 .. Len(edges) : edges[k].source = selected}
             neighborIds == {edges[k].source : k \in connected}
                                \cup {edges[k].target : k \in connected}
             connectedEdgeIds == {edges[k].id : k \in connected}
         IN  [g EXCEPT !.nodes = [i \in 1 .. Len(g.nodes) |->
                                     [g.nodes[i] EXCEPT !.opacity =
                                         IF g.nodes[i].id = selected
                                            \/ g.nodes[i].id \in neighborIds
                                         THEN Full ELSE DimNode]],
                       !.edges = [k \in 1 .. Len(g.edges) |->
                                     [g.edges[k] EXCEPT !.opacity =
                                         IF g.edges[k].id \in connectedEdgeIds
                                         THEN Full ELSE DimEdge]]]

\* The "Pan to selected node and highlight its neighbors" effect.  getNodes
\* and getEdges read the committed lists; the setNodes/setEdges updaters map
\* over the lists as the layout effect of the same render left them.
SelectionEffect(g, selected) ==
    IF selected = NULL
    THEN [g EXCEPT !.nodes = [i \in 1 .. Len(g.nodes) |->
                                 [g.nodes[i] EXCEPT !.opacity = Full]],
                   !.edges = [k \in 1 .. Len(g.edges) |->
                                 [g.edges[k] EXCEPT !.opacity = Full]]]
    ELSE IF selected \notin SeqIds(nodes) THEN g
    ELSE LET connected == {k \in 1 .. Len(edges) :
                              edges[k].source = selected \/ edges[k].target = selected}
             neighborIds == {edges[k].source : k \in connected}
                                \cup {edges[k].target : k \in connected}
             connectedEdgeIds == {edges[k].id : k \in connected}
         IN  [g EXCEPT !.nodes = [i \in 1 .. Len(g.nodes) |->
                                     [g.nodes[i] EXCEPT !.opacity =
                                         IF g.nodes[i].id = selected
                                            \/ g.nodes[i].id \in neighborIds
                                         THEN Full ELSE DimNode]],
                       !.edges = [k \in 1 .. Len(g.edges) |->
                                     [g.edges[k] EXCEPT !.opacity =
                                         IF g.edges[k].id \in connectedEdgeIds
                                         THEN Full ELSE DimEdge]]]

\* One render after a store change: the memo, then the effects whose
\* dependencies changed, in the order they are declared.
Render ==
    \E oldNodes \in {rawNodes}, newNodes \in {rawNodes'}, newEdges \in {rawEdges'} :
    \E g \in {LET g1 == IF MemoDepsChanged
                        THEN LayoutEffect(GraphState, oldNodes, newNodes, newEdges)
                        ELSE GraphState
              IN  IF selectedComponentId' # selectedComponentId
                  THEN SelectionEffect(g1, selectedComponentId')
                  ELSE g1} :
        /\ (MemoDepsChanged /\ Len(newNodes) > 0) => Len(inflight) < MaxInflight
        /\ nodes' = g.nodes
        /\ edges' = g.edges
        /\ inflight' = g.inflight
        /\ timerPending' = g.timerPending
        /\ lastApplied' = g.lastApplied
        /\ UNCHANGED <<orphanTimers, frames>>

Remove(seq, i) == SubSeq(seq, 1, i - 1) \o SubSeq(seq, i + 1, Len(seq))

\* Mutant: the callback calls setNodes only.
LayoutResolve_nodesOnly(i, answer) ==
    /\ timerPending => orphanTimers < MaxOrphanTimers
    /\ \E r \in {getLayoutedElements(inflight[i].nodes, inflight[i].edges, answer)} :
          /\ nodes' = r.nodes
          /\ edges' = edges
    /\ orphanTimers' = (IF timerPending THEN orphanTimers + 1 ELSE orphanTimers)
    /\ timerPending' = TRUE
    /\ inflight' = Remove(inflight, i)
    /\ lastApplied' = (IF inflight[i].stale THEN "stale"
                       ELSE IF inflight[i].latest THEN "latest"
                       ELSE "superseded")
    /\ UNCHANGED <<frames, storeVars, histVars>>

\* The .then() callback of getLayoutedElements for the i-th pending call,
\* the engine having answered with the positions of answer.
LayoutResolve(i, answer) ==
    /\ timerPending => orphanTimers < MaxOrphanTimers
    /\ \E r \in {getLayoutedElements(inflight[i].nodes, inflight[i].edges, answer)} :
          /\ nodes' = r.nodes
          /\ edges' = assignHandles(r.nodes, r.edges)
    /\ orphanTimers' = (IF timerPending THEN orphanTimers + 1 ELSE orphanTimers)
    /\ timerPending' = TRUE
    /\ inflight' = Remove(inflight, i)
    /\ lastApplied' = (IF inflight[i].stale THEN "stale"
                       ELSE IF inflight[i].latest THEN "latest"
                       ELSE "superseded")
    /\ UNCHANGED <<frames, storeVars, histVars>>

\* Mutant: a rejection handler that resets the view to Top.
LayoutReject_resetsView(i) ==
    /\ inflight' = Remove(inflight, i)
    /\ lastApplied' = "rejected"
    /\ drillLevel' = NULL
    /\ breadcrumbs' = <<>>
    /\ selectedComponentId' = NULL
    /\ UNCHANGED <<nodes, edges, timerPending, orphanTimers, frames>>
    /\ UNCHANGED <<architecture, activePanel, detailItem, reviewMode,
                   annotatingComponentId, histVars>>

\* elk.layout rejects: the promise has no rejection handler, nothing is written.
LayoutReject(i) ==
    /\ inflight' = Remove(inflight, i)
    /\ lastApplied' = "rejected"
    /\ UNCHANGED <<nodes, edges, timerPending, orphanTimers, frames>>
    /\ UNCHANGED <<storeVars, histVars>>

\* A pending fit-view timer fires (fitView is an external call).
FitViewTimeout ==
    /\ \/ /\ timerPending
          /\ timerPending' = FALSE
          /\ UNCHANGED orphanTimers
       \/ /\ orphanTimers > 0
          /\ orphanTimers' = orphanTimers - 1
          /\ UNCHANGED timerPending
    /\ UNCHANGED <<nodes, edges, inflight, lastApplied, frames>>
    /\ UNCHANGED <<storeVars, histVars>>

NodeIds == SeqIds(nodes)

\* Positions a node is dragged to.
DragPositions == {Pos(260, 700)}
\* The size the renderer measures for a node: it depends on the frame drawn
\* for the component type and on the content (ComponentNode.tsx).
MeasuredSize(type) ==
    IF type = "web-client" THEN [width |-> 360, height |-> 90]
    ELSE IF type = "library" THEN [width |-> 240, height |-> 230]
    ELSE [width |-> 280, height |-> 140]
\* The change lists React Flow hands to onNodesChange: the drag of one
\* displayed node, or the measured dimensions of the displayed nodes.
NodeChanges ==
    {[type |-> "position", ids |-> {id}, position |-> p] :
        id \in NodeIds, p \in DragPositions}
    \cup (IF nodes = <<>> THEN {} ELSE {[type |-> "dimensions", ids |-> NodeIds]})

\* onNodesChangeBase: the change applied to the nodes it names.
applyNodeChanges(change, ns) ==
    [i \in 1 .. Len(ns) |->
        IF ns[i].id \notin change.ids THEN ns[i]
        ELSE IF change.type = "position"
        THEN [ns[i] EXCEPT !.position = change.position]
        ELSE [ns[i] EXCEPT !.measured = Some(MeasuredSize(ns[i].type))]]

\* onNodesChange: a position change also schedules the handle recomputation
\* with requestAnimationFrame.
onNodesChange(change) ==
    /\ nodes' = applyNodeChanges(change, nodes)
    /\ IF change.type = "position"
       THEN frames < MaxFrames /\ frames' = frames + 1
       ELSE UNCHANGED frames
    /\ UNCHANGED <<edges, inflight, timerPending, orphanTimers, lastApplied>>
    /\ UNCHANGED <<storeVars, histVars>>

\* The requestAnimationFrame callback of onNodesChange.
AnimationFrame ==
    /\ frames > 0
    /\ frames' = frames - 1
    /\ edges' = assignHandles(nodes, edges)
    /\ UNCHANGED <<nodes, inflight, timerPending, orphanTimers, lastApplied>>
    /\ UNCHANGED <<storeVars, histVars>>

\* App.tsx load effect, seen from the graph.
Load(arch) == setArchitecture(arch) /\ Render
\* onNodeClick / ComponentNode onClick on a displayed node.
onNodeClick(id) == selectComponent(id) /\ Render
onPaneClick == selectComponent(NULL) /\ Render
\* ComponentNode double click / drill button on a displayed node.
onNodeDrill(id) ==
    /\ hasSubstructure(CompById(id))
    /\ drillInto(CompById(id))
    /\ Render
\* Breadcrumb bar: "Up" is rendered when drilled, "Home" and the crumbs
\* before the last one are buttons.
onDrillUp == drillLevel # NULL /\ breadcrumbs # <<>> /\ drillUp /\ Render
onBreadcrumb(index) ==
    /\ breadcrumbs # <<>>
    /\ index < Len(breadcrumbs) - 1
    /\ navigateToBreadcrumb(index)
    /\ Render

NextGraph ==
    \/ \E arch \in GraphArchs : Load(arch) /\ UNCHANGED geomVars
    \/ \E id \in NodeIds : onNodeClick(id) /\ UNCHANGED geomVars
    \/ onPaneClick /\ UNCHANGED geomVars
    \/ \E id \in NodeIds : onNodeDrill(id) /\ UNCHANGED geomVars
    \/ onDrillUp /\ UNCHANGED geomVars
    \/ \E index \in -1 .. MaxIndex : onBreadcrumb(index) /\ UNCHANGED geomVars
    \/ \E i \in 1 .. Len(inflight) : \E answer \in ElkAnswers(inflight[i].nodes) :
          LayoutResolve(i, answer) /\ UNCHANGED geomVars
    \/ \E i \in 1 .. Len(inflight) : LayoutReject(i) /\ UNCHANGED geomVars
    \/ FitViewTimeout /\ UNCHANGED geomVars

SpecGraph == Init /\ [][NextGraph]_vars

\* The graph when the engine answers every call.
NextGraphResolved ==
    \/ \E arch \in GraphArchs : Load(arch) /\ UNCHANGED geomVars
    \/ \E id \in NodeIds : onNodeClick(id) /\ UNCHANGED geomVars
    \/ onPaneClick /\ UNCHANGED geomVars
    \/ \E id \in NodeIds : onNodeDrill(id) /\ UNCHANGED geomVars
    \/ onDrillUp /\ UNCHANGED geomVars
    \/ \E index \in -1 .. MaxIndex : onBreadcrumb(index) /\ UNCHANGED geomVars
    \/ \E i \in 1 .. Len(inflight) : \E answer \in ElkAnswers(inflight[i].nodes) :
          LayoutResolve(i, answer) /\ UNCHANGED geomVars
    \/ FitViewTimeout /\ UNCHANGED geomVars

SpecGraphResolved == Init /\ [][NextGraphResolved]_vars

\* The canvas at one drill level: clicks, layout completions, drags and
\* measurements of the displayed nodes.
NextCanvas ==
    \/ \E arch \in GraphArchs : Load(arch) /\ UNCHANGED geomVars
    \/ \E id \in NodeIds : onNodeClick(id) /\ UNCHANGED geomVars
    \/ onPaneClick /\ UNCHANGED geomVars
    \/ \E i \in 1 .. Len(inflight) : \E answer \in ElkAnswers(inflight[i].nodes) :
          LayoutResolve(i, answer) /\ UNCHANGED geomVars
    \/ \E i \in 1 .. Len(inflight) : LayoutReject(i) /\ UNCHANGED geomVars
    \/ FitViewTimeout /\ UNCHANGED geomVars
    \/ \E change \in NodeChanges : onNodesChange(change) /\ UNCHANGED geomVars
    \/ AnimationFrame /\ UNCHANGED geomVars

SpecCanvas == Init /\ [][NextCanvas]_vars

\* C2: the result of a layout call that was in flight when a change of the
\* visible set started a newer call is never written to the displayed nodes
\* and edges.
C2_OnlyLatestLayoutApplied == lastApplied # "stale"

\* Twice the centre difference of the last call, target minus source.
Dx2 == (2 * handles[1].targetPos.x + handles[1].targetSize.width)
          - (2 * handles[1].sourcePos.x + handles[1].sourceSize.width)
Dy2 == (2 * handles[1].targetPos.y + handles[1].targetSize.height)
          - (2 * handles[1].sourcePos.y + handles[1].sourceSize.height)

\* C10: the handle pair is right->left / left->right (by the sign of dx) when
\* |dx| >= |dy|, and bottom->top / top->bottom (by the sign of dy) otherwise;
\* |dx| = |dy| always gives a horizontal pair.
C10_HandlesByCentreDifference ==
    handles # None =>
        LET r == handles[1].result
            horizontal == Dx2 * Dx2 >= Dy2 * Dy2
        IN  /\ (horizontal /\ Dx2 >= 0) =>
                  r = Handles("source-right", "target-left")
            /\ (horizontal /\ Dx2 < 0) =>
                  r = Handles("source-left", "target-right")
            /\ (~horizontal /\ Dy2 >= 0) =>
                  r = Handles("source-bottom", "target-top")
            /\ (~horizontal /\ Dy2 < 0) =>
                  r = Handles("source-top", "target-bottom")
            /\ (Dx2 = Dy2 \/ Dx2 = -Dy2) =>
                  r.sourceHandle \in {"source-right", "source-left"}

C10_Witness ==
    /\ handles # None
    /\ Dx2 = -Dy2
    /\ Dx2 < 0
    /\ handles[1].result = Handles("source-left", "target-right")

(***************************************************************************)
(* flattenTopLevel as a function of the component forest.                  *)
(***************************************************************************)
TreeTypes == {"project", "repository", "module", "content", "web-client"}
WrapperTypes == {"project", "repository", "module", "package", "library", "content"}

Comp(id, type, children) ==
    [id |-> id, name |-> id, type |-> type, files |-> <<>>, children |-> children]

\* The chains of height <= h below a root called id.
RECURSIVE Chains(_, _)
Chains(id, h) ==
    IF h = 0 THEN {Comp(id, t, <<>>) : t \in TreeTypes}
    ELSE {Comp(id, t, ch) :
             t \in TreeTypes,
             ch \in {<<>>} \cup {<<c>> : c \in Chains(id \o "1", h - 1)}}

\* One chain; a chain followed by a leaf root; one root with a chain and a
\* leaf as children.
Forests ==
    {<<c>> : c \in Chains("r", MaxHeight)}
    \cup {<<c, d>> : c \in Chains("r", MaxHeight - 1), d \in Chains("q", 0)}
    \cup {<<Comp("p", t, <<c, d>>)>> :
             t \in TreeTypes,
             c \in Chains("r", MaxHeight - 1), d \in Chains("q", 0)}

\* Three nested wrappers around a client c1, then a server s1.
ScenarioA(t1, t2, t3, client, server) ==
    << Comp("w1", t1, << Comp("w2", t2, << Comp("w3", t3,
           << Comp("c1", client, <<>>) >>) >>) >>),
       Comp("s1", server, <<>>) >>
ScenarioATrees ==
    {ScenarioA(t1, t2, t3, client, server) :
        t1 \in WrapperTypes, t2 \in WrapperTypes, t3 \in WrapperTypes,
        client \in CLIENT_TYPES, server \in SERVER_TYPES}

\* One call of flattenTopLevel.  The function reads nothing but its argument,
\* so the call recorded is the first one of a behaviour.
FlattenTopLevel(components, relationships) ==
    /\ probe = None
    /\ probe' = Some([op |-> "flattenTopLevel", input |-> components,
                      relationships |-> relationships,
                      result |-> flattenTopLevel(components)])
    /\ UNCHANGED <<storeVars, graphVars, histVars, handles>>

\* Three leaf roots, each a client or a server, and the relationship lists
\* among them.
ClientServerForests ==
    {<<Comp("h1", t1, <<>>), Comp("h2", t2, <<>>), Comp("h3", t3, <<>>)>> :
        t1 \in {"web-client", "api-server"}, t2 \in {"web-client", "api-server"},
        t3 \in {"web-client", "api-server"}}
RelationshipLists ==
    {SelectSeq(<<Rel("h1", "h2", "http"), Rel("h3", "h1", "http"),
                 Rel("h2", "h3", "http")>>,
               LAMBDA r : r \in kept) :
        kept \in SUBSET {Rel("h1", "h2", "http"), Rel("h3", "h1", "http"),
                         Rel("h2", "h3", "http")}}

\* The architectures flattenTopLevel is called in: a component forest and
\* the relationship list loaded with it.
FlattenInputs ==
    {[components |-> f, relationships |-> <<>>] : f \in Forests}
    \cup {[components |-> f, relationships |-> <<Rel("c1", "s1", "communication")>>] :
             f \in ScenarioATrees}
    \cup {[components |-> f, relationships |-> rels] :
             f \in ClientServerForests, rels \in RelationshipLists}

NextFlatten ==
    /\ probe = None
    /\ \E arch \in FlattenInputs :
          FlattenTopLevel(arch.components, arch.relationships)

SpecFlatten == Init /\ [][NextFlatten]_vars

\* C19: flattenTopLevel never returns a component of type "content".
C19_NoContentAtTopLevel ==
    (probe # None /\ probe[1].op = "flattenTopLevel") =>
        \A i \in 1 .. Len(probe[1].result) : probe[1].result[i].type # "content"

\* The input is a chain of three non-hero wrappers around a client, followed
\* by a server.
IsScenarioA(input) ==
    /\ Len(input) = 2
    /\ \E w1 \in {input[1]} :
          /\ ~isHeroType(w1.type) /\ Len(w1.children) = 1
          /\ \E w2 \in {w1.children[1]} :
                /\ ~isHeroType(w2.type) /\ Len(w2.children) = 1
                /\ \E w3 \in {w2.children[1]} :
                      /\ ~isHeroType(w3.type) /\ Len(w3.children) = 1
                      /\ w3.children[1].type \in CLIENT_TYPES
                      /\ w3.children[1].children = <<>>
    /\ input[2].type \in SERVER_TYPES
    /\ input[2].children = <<>>

\* C20: for three nested non-hero wrappers around a client c1, followed by a
\* server s1, flattenTopLevel returns exactly [c1, s1].
C20_ScenarioA ==
    (probe # None /\ probe[1].op = "flattenTopLevel" /\ IsScenarioA(probe[1].input)) =>
        probe[1].result =
            << probe[1].input[1].children[1].children[1].children[1],
               probe[1].input[2] >>

C20_Witness ==
    /\ probe # None
    /\ probe[1].op = "flattenTopLevel"
    /\ IsScenarioA(probe[1].input)
    /\ probe[1].input[1].type = "module"
    /\ probe[1].input[1].children[1].type = "repository"
    /\ Len(probe[1].result) = 2
    /\ probe[1].result[1].id = "c1"
    /\ probe[1].result[2].id = "s1"

\* The input is one project wrapper whose children are leaf modules.
IsScenarioB(input) ==
    /\ Len(input) = 1
    /\ input[1].type = "project"
    /\ Len(input[1].children) > 0
    /\ \A k \in 1 .. Len(input[1].children) :
          /\ input[1].children[k].type = "module"
          /\ input[1].children[k].children = <<>>

C22_NonEmptyResult ==
    (probe # None /\ probe[1].op = "flattenTopLevel" /\ Len(probe[1].input) > 0) =>
        Len(probe[1].result) > 0

\* A chain of nested project wrappers and nothing else.
C22_Witness ==
    /\ probe # None
    /\ probe[1].op = "flattenTopLevel"
    /\ Len(probe[1].input) = 1
    /\ \A c \in ComponentsOf(probe[1].input) : c.type = "project"
    /\ Len(probe[1].input[1].children) = 1
    /\ Len(probe[1].result) = 1
    /\ probe[1].result[1].type = "project"

\* Categories the declutter rule never hides.
AlwaysShowTypes == {"library", "infrastructure"}

\* C23: at a drilled level, when some visible item is a hero type, no visible
\* item is a non-hero without children, with fewer than 10 files, outside the
\* always-show categories (drilled into P with children A, a plain module
\* with 3 files, and B, a server, the visible set is [B]).
C23_DeclutterAtDrilledLevel ==
    (Loaded /\ drillLevel # NULL) =>
        LET visible == getVisibleComponents IN
        (\E i \in 1 .. Len(visible) : isHeroType(visible[i].type)) =>
            \A i \in 1 .. Len(visible) :
                ~ /\ ~isHeroType(visible[i].type)
                  /\ Len(visible[i].children) = 0
                  /\ Len(visible[i].files) < 10
                  /\ visible[i].type \notin AlwaysShowTypes

\* C26: a repository root whose subtree holds no hero-type component is
\* returned itself, and none of the components below it is returned.
C26_RepositoryKeptAsGroup ==
    (probe # None /\ probe[1].op = "flattenTopLevel") =>
        \A i \in 1 .. Len(probe[1].input) :
            LET repo == probe[1].input[i]
                below == ComponentsOf(repo.children)
            IN  (repo.type = "repository" /\ \A c \in below : ~isHeroType(c.type)) =>
                    /\ \E k \in 1 .. Len(probe[1].result) : probe[1].result[k] = repo
                    /\ \A k \in 1 .. Len(probe[1].result) :
                          probe[1].result[k] \notin below

(***************************************************************************)
(* getLayoutedElements as a function of the node list, the edge list and   *)
(* the engine's answer.                                                    *)
(***************************************************************************)
LayoutIds == <<"na", "nb", "nc", "nd">>
\* The first n nodes, each at its prior position.
LayoutNodes(n) ==
    [k \in 1 .. n |->
        [id |-> LayoutIds[((k - 1) % 4) + 1] \o (IF k > 4 THEN "2" ELSE ""),
         type |-> "module", position |-> Pos(k * 320, 200),
         measured |-> None, opacity |-> NULL]]
LayoutEdges(n) ==
    IF n < 2 THEN <<>>
    ELSE << [id |-> <<"na", "nb", 0>>, source |-> "na", target |-> "nb",
             sourceHandle |-> NULL, targetHandle |-> NULL, opacity |-> NULL] >>
\* Children the engine may answer with: nodes of the call and a node that is
\* not one of them, with or without an x coordinate.
EngineChildren ==
    {ElkChild(id, x, Some(40)) :
        id \in {"na", "nb", "nc", "stray"}, x \in {Some(700), None}}
\* The sequences over S of length at most n.
SeqsUpTo(S, n) == UNION {[1 .. len -> S] : len \in 0 .. n}
\* Every answer: children missing, or any list of children (reordered,
\* incomplete, repeated).
EngineAnswers == {None} \cup {Some(q) : q \in SeqsUpTo(EngineChildren, MaxLayoutNodes)}

\* One call of getLayoutedElements whose elk.layout promise resolved.
GetLayoutedElements(ns, es, answer) ==
    /\ probe = None
    /\ probe' = Some([op |-> "getLayoutedElements", nodes |-> ns, edges |-> es,
                      answer |-> answer,
                      result |-> getLayoutedElements(ns, es, answer)])
    /\ UNCHANGED <<storeVars, graphVars, histVars, handles>>

NextLayout ==
    /\ probe = None
    /\ \E n \in 1 .. MaxLayoutNodes : \E answer \in EngineAnswers :
          GetLayoutedElements(LayoutNodes(n), LayoutEdges(n), answer)

SpecLayout == Init /\ [][NextLayout]_vars

\* C27: getLayoutedElements returns the input nodes in input order, a node
\* whose id is among the engine's children at the engine's position (of the
\* first such child), any other node unchanged, and the edge list unchanged.
C27_LayoutReconciliation ==
    (probe # None /\ probe[1].op = "getLayoutedElements") =>
        LET call == probe[1]
            kids == IF call.answer = None THEN <<>> ELSE call.answer[1]
            hits(id) == {k \in 1 .. Len(kids) : kids[k].id = id}
            first(id) == kids[CHOOSE k \in hits(id) : \A j \in hits(id) : k <= j]
        IN  /\ call.result.edges = call.edges
            /\ Len(call.result.nodes) = Len(call.nodes)
            /\ \A i \in 1 .. Len(call.nodes) :
                  IF hits(call.nodes[i].id) = {}
                  THEN call.result.nodes[i] = call.nodes[i]
                  ELSE call.result.nodes[i] =
                          [call.nodes[i] EXCEPT !.position =
                              Pos(IF first(call.nodes[i].id).x = None THEN 0
                                  ELSE first(call.nodes[i].id).x[1],
                                  IF first(call.nodes[i].id).y = None THEN 0
                                  ELSE first(call.nodes[i].id).y[1])]

\* The engine answered with the third node first and without the first node.
C27_Witness ==
    /\ probe # None
    /\ probe[1].op = "getLayoutedElements"
    /\ Len(probe[1].nodes) = 3
    /\ probe[1].answer # None
    /\ Len(probe[1].answer[1]) = 2
    /\ probe[1].answer[1][1].id = "nc"
    /\ probe[1].answer[1][2].id = "nb"
    /\ probe[1].result.nodes[1] = probe[1].nodes[1]
    /\ probe[1].result.nodes[2].position # probe[1].nodes[2].position
    /\ probe[1].result.nodes[3].position # probe[1].nodes[3].position

\* The ids of the client-type components anywhere in a forest.
ClientIds(components) ==
    {c.id : c \in {d \in ComponentsOf(components) : d.type \in CLIENT_TYPES}}
\* Some relationship joins the component and a client id.
IsClientFacing(comp, components, relationships) ==
    \E k \in 1 .. Len(relationships) :
        \/ /\ relationships[k].source \in ClientIds(components)
           /\ relationships[k].target = comp.id
        \/ /\ relationships[k].target \in ClientIds(components)
           /\ relationships[k].source = comp.id

\* C29: for a forest of client and server leaf roots (the walk's candidates)
\* with a client and a server that has a relationship with a client id, the
\* components returned are exactly the clients and the servers that have a
\* relationship with some client id.
C29_ClientFacingFilter ==
    (probe # None /\ probe[1].op = "flattenTopLevel") =>
        LET call == probe[1]
            roots == {call.input[i] : i \in 1 .. Len(call.input)}
            facing(c) == IsClientFacing(c, call.input, call.relationships)
        IN  (/\ \A c \in roots :
                  c.children = <<>> /\ c.type \in CLIENT_TYPES \cup SERVER_TYPES
             /\ \E c \in roots : c.type \in CLIENT_TYPES
             /\ \E c \in roots : c.type \in SERVER_TYPES /\ facing(c))
            => {call.result[k] : k \in 1 .. Len(call.result)}
                  = {c \in roots : c.type \in CLIENT_TYPES
                                     \/ (c.type \in SERVER_TYPES /\ facing(c))}

\* C30: when the forest holds a client or server type, no returned component
\* is of another, non-structural type with no client or server type in its
\* subtree.
C30_NoDomain3AtTopLevel ==
    (probe # None /\ probe[1].op = "flattenTopLevel") =>
        LET call == probe[1]
            domain12(c) == c.type \in CLIENT_TYPES \cup SERVER_TYPES
        IN  (\E c \in ComponentsOf(call.input) : domain12(c)) =>
                \A k \in 1 .. Len(call.result) :
                    ~ /\ ~domain12(call.result[k])
                      /\ call.result[k].type \notin {"project", "repository"}
                      /\ \A c \in ComponentsOf(<<call.result[k]>>) : ~domain12(c)

\* The components of a forest in depth-first order, a component before its
\* children and the children in their order.
RECURSIVE PreOrder(_)
PreOrder(components) ==
    IF components = <<>> THEN <<>>
    ELSE <<Head(components)>> \o PreOrder(Head(components).children)
             \o PreOrder(Tail(components))
IndexIn(seq, x) == CHOOSE i \in 1 .. Len(seq) : seq[i] = x

\* C32: the list returned by flattenTopLevel never holds a component together
\* with one of its descendants, and never a descendant of a hero-type
\* component.
C32_RecursionStopsAtCandidates ==
    (probe # None /\ probe[1].op = "flattenTopLevel") =>
        LET call == probe[1]
            returned == {call.result[k] : k \in 1 .. Len(call.result)}
        IN  /\ \A a \in returned : ComponentsOf(a.children) \cap returned = {}
            /\ \A h \in ComponentsOf(call.input) :
                  isHeroType(h.type) => ComponentsOf(h.children) \cap returned = {}

\* A hero with a hero below it: only the upper one is returned.
C32_Witness ==
    /\ probe # None
    /\ probe[1].op = "flattenTopLevel"
    /\ Len(probe[1].input) = 1
    /\ isHeroType(probe[1].input[1].type)
    /\ Len(probe[1].input[1].children) = 1
    /\ isHeroType(probe[1].input[1].children[1].type)
    /\ probe[1].result = probe[1].input

\* C33: the list returned by flattenTopLevel is in the depth-first order of
\* the tree: of two returned components the one met first in the walk comes
\* first.
C33_DepthFirstOrder ==
    (probe # None /\ probe[1].op = "flattenTopLevel") =>
        LET call == probe[1]
            walk == PreOrder(call.input)
        IN  \A i \in 1 .. Len(call.result) : \A j \in 1 .. Len(call.result) :
                /\ \E k \in 1 .. Len(walk) : walk[k] = call.result[i]
                /\ i < j => IndexIn(walk, call.result[i]) < IndexIn(walk, call.result[j])

\* A non-hero peer is returned before a hero that comes later in the walk.
C33_Witness ==
    /\ probe # None
    /\ probe[1].op = "flattenTopLevel"
    /\ Len(probe[1].result) = 2
    /\ ~isHeroType(probe[1].result[1].type)
    /\ isHeroType(probe[1].result[2].type)
    /\ IndexIn(PreOrder(probe[1].input), probe[1].result[1]) = 2
    /\ IndexIn(PreOrder(probe[1].input), probe[1].result[2]) > 2

(***************************************************************************)
(* getLayoutedElements: the node order and the priorities handed to the    *)
(* engine.                                                                 *)
(***************************************************************************)
TYPE_PRIORITY ==
    [t \in {"ios-client", "android-client", "mobile-client", "watch-app",
            "web-client", "desktop-app", "cli-tool", "api-server", "service"} |->
        CASE t = "ios-client" -> 0
          [] t = "android-client" -> 1
          [] t = "mobile-client" -> 2
          [] t = "watch-app" -> 3
          [] t = "web-client" -> 4
          [] t = "desktop-app" -> 5
          [] t = "cli-tool" -> 6
          [] t = "api-server" -> 10
          [] t = "service" -> 11]

\* TYPE_PRIORITY[type] ?? 20
getTypePriority(type) ==
    IF type \in DOMAIN TYPE_PRIORITY THEN TYPE_PRIORITY[type] ELSE 20

\* Array.prototype.sort with the comparator of getLayoutedElements: a stable
\* sort, each node put behind the nodes that do not compare greater.
RECURSIVE InsertByPriority(_, _)
InsertByPriority(sorted, node) ==
    IF sorted = <<>> THEN <<node>>
    ELSE IF getTypePriority(Head(sorted).type) - getTypePriority(node.type) > 0
    THEN <<node>> \o sorted
    ELSE <<Head(sorted)>> \o InsertByPriority(Tail(sorted), node)

\* Mutant: the nodes are handed to the engine in input order.
sortedNodes_inputOrder(ns) == ns

RECURSIVE sortedNodes(_)
sortedNodes(ns) ==
    IF ns = <<>> THEN <<>>
    ELSE InsertByPriority(sortedNodes(SubSeq(ns, 1, Len(ns) - 1)), ns[Len(ns)])

\* elkGraph.children: id and "elk.priority" of each sorted node.
elkGraphChildren(ns) ==
    Let(sortedNodes(ns),
        LAMBDA sorted :
            [k \in 1 .. Len(sorted) |->
                [id |-> sorted[k].id, priority |-> Len(sorted) - (k - 1)]])

\* Types of the nodes handed to the layout.
PriorityTypes ==
    {"ios-client", "web-client", "api-server", "service", "module", "library"}
TypedNodes(types) ==
    [k \in 1 .. Len(types) |->
        [id |-> LayoutIds[k], type |-> types[k], position |-> Pos(k * 320, 200),
         measured |-> None, opacity |-> NULL]]

\* The engine input one call of getLayoutedElements builds.
BuildElkGraph(ns) ==
    /\ probe = None
    /\ probe' = Some([op |-> "elkGraph", nodes |-> ns,
                      children |-> elkGraphChildren(ns)])
    /\ UNCHANGED <<storeVars, graphVars, histVars, handles>>

NextElkGraph ==
    /\ probe = None
    /\ \E n \in 1 .. MaxLayoutNodes : \E types \in [1 .. n -> PriorityTypes] :
          BuildElkGraph(TypedNodes(types))

SpecElkGraph == Init /\ [][NextElkGraph]_vars

\* 0 for a client type, 1 for a server type, 2 for every other type.
Category(type) ==
    IF type \in CLIENT_TYPES THEN 0 ELSE IF type \in SERVER_TYPES THEN 1 ELSE 2

\* C34: the nodes go to the engine ordered by the priority table, equal
\* priorities in input order; the k-th of n (counted from 0) gets rank n - k,
\* so the ranks are distinct and in 1..n, and a node of an earlier category
\* (client, then server, then the rest) has a greater rank than a node of a
\* later one.
C34_PriorityRanks ==
    (probe # None /\ probe[1].op = "elkGraph") =>
        LET call == probe[1]
            n == Len(call.nodes)
            at(id) == CHOOSE i \in 1 .. n : call.nodes[i].id = id
            typeOf(k) == call.nodes[at(call.children[k].id)].type
        IN  /\ Len(call.children) = n
            /\ {call.children[k].id : k \in 1 .. n} = {call.nodes[i].id : i \in 1 .. n}
            /\ \A k \in 1 .. n :
                  /\ call.children[k].priority = n - (k - 1)
                  /\ call.children[k].priority \in 1 .. n
            /\ \A k \in 1 .. n : \A m \in 1 .. n :
                  /\ k # m => call.children[k].priority # call.children[m].priority
                  /\ k < m => getTypePriority(typeOf(k)) <= getTypePriority(typeOf(m))
                  /\ (k < m /\ getTypePriority(typeOf(k)) = getTypePriority(typeOf(m)))
                        => at(call.children[k].id) < at(call.children[m].id)
                  /\ Category(typeOf(k)) < Category(typeOf(m))
                        => call.children[k].priority > call.children[m].priority

\* A module, a server and a client, in that order, come out reversed.
C34_Witness ==
    /\ probe # None
    /\ probe[1].op = "elkGraph"
    /\ Len(probe[1].nodes) = 3
    /\ probe[1].nodes[1].type = "module"
    /\ probe[1].nodes[2].type = "api-server"
    /\ probe[1].nodes[3].type = "web-client"
    /\ probe[1].children[1] = [id |-> "nc", priority |-> 3]
    /\ probe[1].children[2] = [id |-> "nb", priority |-> 2]
    /\ probe[1].children[3] = [id |-> "na", priority |-> 1]

\* C11: once a layout result has been applied and no deferred handle
\* recomputation is pending, every displayed edge between displayed nodes
\* carries the optimal handles of the current boxes of its endpoints.
C11_AnchorsFollowBoxes ==
    (nodes # <<>> /\ frames = 0) =>
        \A k \in 1 .. Len(edges) :
            (edges[k].source \in NodeIds /\ edges[k].target \in NodeIds) =>
                LET source == NodeById(nodes, edges[k].source)
                    target == NodeById(nodes, edges[k].target)
                IN  Handles(edges[k].sourceHandle, edges[k].targetHandle)
                        = computeOptimalHandles(source.position, SizeOf(source),
                                                target.position, SizeOf(target))


\* The ids of a node or edge list, in order.
Ids(seq) == [i \in 1 .. Len(seq) |-> seq[i].id]
\* The edge ids the memo computes for a set of displayed node ids.
EdgeIdsAmong(ids) ==
    IF ~Loaded THEN <<>>
    ELSE LET rels == SelectSeq(Arch.relationships,
                               LAMBDA r : r.source \in ids /\ r.target \in ids)
         IN  [i \in 1 .. Len(rels) |-> <<rels[i].source, rels[i].target, i - 1>>]

\* C12: the displayed edges are always the edges of the request the
\* displayed nodes came from, and the two lists are replaced only together:
\* by the resolved result of one pending layout call (its nodes at the
\* engine's positions, its edges), or both by the empty list when the visible
\* set is empty.
C12_ReplacedTogetherByResolvedLayout ==
    /\ [](Ids(edges) = EdgeIdsAmong(NodeIds))
    /\ [][(Ids(nodes') # Ids(nodes) \/ Ids(edges') # Ids(edges)) =>
            \/ nodes' = <<>> /\ edges' = <<>> /\ rawNodes' = <<>>
            \/ \E i \in 1 .. Len(inflight) :
               \E answer \in ElkAnswers(inflight[i].nodes) :
                  /\ inflight' = Remove(inflight, i)
                  /\ nodes' = getLayoutedElements(inflight[i].nodes,
                                                  inflight[i].edges, answer).nodes
                  /\ Ids(edges') = Ids(inflight[i].edges)]_vars

C12_Witness ==
    /\ last.op = "drillUp"
    /\ drillLevel = "p"
    /\ lastApplied = "latest"
    /\ Ids(nodes) = <<"a", "l">>
    /\ Ids(edges) = << <<"a", "l", 0>> >>

\* C13: when the selection changes to a displayed node X, X, the endpoints
\* of the displayed edges touching X and those edges get full emphasis, and
\* every other displayed node and edge gets reduced emphasis; the lists
\* themselves are not replaced.
C13_SelectionEmphasis ==
    [][(selectedComponentId' # selectedComponentId
            /\ selectedComponentId' # NULL
            /\ selectedComponentId' \in NodeIds) =>
        LET X == selectedComponentId'
            touching == {k \in 1 .. Len(edges) :
                            edges[k].source = X \/ edges[k].target = X}
            emphasized == {X} \cup {edges[k].source : k \in touching}
                              \cup {edges[k].target : k \in touching}
        IN  /\ Ids(nodes') = Ids(nodes)
            /\ Ids(edges') = Ids(edges)
            /\ \A i \in 1 .. Len(nodes) :
                  nodes'[i].opacity =
                      (IF nodes[i].id \in emphasized THEN Full ELSE DimNode)
            /\ \A k \in 1 .. Len(edges) :
                  edges'[k].opacity = (IF k \in touching THEN Full ELSE DimEdge)]_vars

C13_Witness ==
    /\ last.op = "selectComponent"
    /\ selectedComponentId = "a"
    /\ Ids(nodes) = <<"a", "l", "s">>
    /\ Ids(edges) = << <<"a", "s", 0>>, <<"a", "l", 1>> >>
    /\ \A i \in 1 .. 3 : nodes[i].opacity = Full
    /\ \A k \in 1 .. 2 : edges[k].opacity = Full

\* C14: a change of the selection that leaves the drill level (and so the
\* visible set) as it is starts no layout call and moves no node.
C14_SelectionStartsNoLayout ==
    [][(selectedComponentId' # selectedComponentId
            /\ drillLevel' = drillLevel /\ architecture' = architecture) =>
        /\ Len(inflight') = Len(inflight)
        /\ \A i \in 1 .. Len(nodes) : nodes'[i].position = nodes[i].position]_vars

\* C15: no navigation operation throws.
C15_NavigationNeverThrows == last.outcome # "threw"

TreeIds == {c.id : c \in TreeComponents}
LookupIds == AllIds \cup {c.id : c \in ForeignComponents} \cup {UnknownId}

\* C16: for an id that is not in the loaded tree getComponentById returns
\* null and getComponentFiles and getComponentSymbols return the empty list;
\* getVisibleComponents returns the empty list when drillLevel is such an id.
C16_UnknownLookupsAreEmpty ==
    /\ \A id \in LookupIds \ TreeIds :
          /\ getComponentById(id) = None
          /\ getComponentFiles(id) = <<>>
          /\ getComponentSymbols(id) = <<>>
    /\ (drillLevel # NULL /\ drillLevel \notin TreeIds) => getVisibleComponents = <<>>

C16_Witness ==
    /\ Loaded
    /\ drillLevel = "ghost"
    /\ getVisibleComponents = <<>>
    /\ getComponentById("a") # None
    /\ Len(getComponentSymbols("g")) = 2

\* id names a component with substructure that is not in the loaded tree.
IsForeignDrillTarget(id) ==
    /\ Loaded
    /\ id \notin TreeIds
    /\ \E c \in ForeignComponents : c.id = id /\ hasSubstructure(c)

\* C17: drillInto on a component with substructure whose id is not in the
\* tree completes, sets drillLevel to that id with an empty breadcrumb trail,
\* and the drillUp that follows returns to Top.
C17_ForeignDrillIsRootLevel ==
    [][/\ (last'.op = "drillInto" /\ IsForeignDrillTarget(last'.arg)) =>
            /\ last'.outcome = "ok"
            /\ drillLevel' = last'.arg
            /\ breadcrumbs' = <<>>
       /\ (last.op = "drillInto" /\ last.outcome = "ok"
               /\ IsForeignDrillTarget(last.arg) /\ last'.op = "drillUp") =>
            /\ last'.outcome = "ok"
            /\ drillLevel' = NULL
            /\ breadcrumbs' = <<>>]_vars

C17_Witness ==
    /\ last.op = "drillUp"
    /\ roundTrip # None
    /\ roundTrip[1].up
    /\ roundTrip[1].x = "husk"
    /\ roundTrip[1].level # NULL
    /\ drillLevel = NULL

\* C18: the step in which a layout call fails leaves drillLevel, breadcrumbs
\* and selectedComponentId as they are.
C18_RejectedLayoutKeepsViewState ==
    [][(Len(inflight') < Len(inflight) /\ lastApplied' = "rejected") =>
        UNCHANGED <<drillLevel, breadcrumbs, selectedComponentId>>]_vars

C18_Witness ==
    /\ lastApplied = "rejected"
    /\ inflight = <<>>
    /\ drillLevel # NULL
    /\ breadcrumbs # <<>>
    /\ selectedComponentId # NULL

\* C24: when drillLevel names a component of the tree, getVisibleComponents
\* returns its children when it has children, the list of that one component
\* when it has no children but has files, and never the empty list.
C24_DrilledVisibleSet ==
    (Loaded /\ drillLevel \in TreeIds) =>
        LET target == CompById(drillLevel)
            visible == getVisibleComponents
        IN  /\ Len(target.children) > 0 => visible = target.children
            /\ (Len(target.children) = 0 /\ Len(target.files) > 0)
                   => visible = <<target>>
            /\ visible # <<>>

\* Drilled into the leaf g of ArchA, which has files and no children.
C24_Witness ==
    /\ Loaded
    /\ drillLevel = "g"
    /\ Len(CompById("g").children) = 0
    /\ Len(getVisibleComponents) = 1
    /\ getVisibleComponents[1].id = "g"

\* C25: selectComponent with a non-null id that names no component of the
\* loaded tree leaves selectedComponentId, detailItem, activePanel and
\* annotatingComponentId as they were.
C25_UnknownSelectChangesNothing ==
    [][(Loaded /\ last'.op = "selectComponent" /\ last'.arg # NULL
               /\ last'.arg \notin TreeIds)
          => UNCHANGED <<selectedComponentId, detailItem, activePanel,
                         annotatingComponentId>>]_vars

\* An unknown id was selected while a component was selected and shown.
C25_Witness ==
    /\ Loaded
    /\ last.op = "selectComponent"
    /\ last.arg = UnknownId
    /\ last.arg \notin TreeIds
    /\ selectedComponentId \in TreeIds
    /\ detailItem # None
    /\ activePanel = "detail"

\* C28: every step that changes drillLevel, and every completed drillInto,
\* drillUp and navigateToBreadcrumb, leaves selectedComponentId null.
C28_DrillChangeClearsSelection ==
    [][(\/ drillLevel' # drillLevel
        \/ /\ last'.op \in {"drillInto", "drillUp", "navigateToBreadcrumb"}
           /\ last'.outcome = "ok")
          => selectedComponentId' = NULL]_vars

\* drillUp to a parent level after a component had been selected (its detail
\* item is still there).
C28_Witness ==
    /\ last.op = "drillUp"
    /\ drillLevel # NULL
    /\ detailItem # None
    /\ selectedComponentId = NULL

\* C31: at a drilled level a non-hero child of the drill target whose
\* subtree holds hero-type components is not visible itself and hero-type
\* components of its subtree are visible in its place; a non-hero child
\* whose subtree holds no hero-type component is visible.
C31_HeroPromotionAtDrilledLevel ==
    (Loaded /\ drillLevel \in TreeIds) =>
        LET target == CompById(drillLevel)
            visible == getVisibleComponents
            shown == {visible[i] : i \in 1 .. Len(visible)}
        IN  \A k \in 1 .. Len(target.children) :
                LET child == target.children[k]
                    heroes == {c \in ComponentsOf(child.children) : isHeroType(c.type)}
                IN  ~isHeroType(child.type) =>
                        IF heroes # {}
                        THEN child \notin shown /\ heroes \cap shown # {}
                        ELSE child \in shown

\* C35: once no layout call is in flight (each one has resolved), the
\* displayed nodes are the visible components of the current view state and
\* the displayed edges the relationships between them.
C35_DisplayedGraphConverges ==
    (Loaded /\ inflight = <<>>) =>
        /\ Ids(nodes) = Ids(getVisibleComponents)
        /\ Ids(edges) = EdgeIdsAmong(SeqIds(getVisibleComponents))

\* The selected node is displayed, and every displayed node outside its
\* neighbour set and every displayed edge not touching it has reduced
\* emphasis.
Deemphasized ==
    /\ selectedComponentId # NULL
    /\ selectedComponentId \in NodeIds
    /\ LET X == selectedComponentId
           touching == {k \in 1 .. Len(edges) :
                           edges[k].source = X \/ edges[k].target = X}
           emphasized == {X} \cup {edges[k].source : k \in touching}
                             \cup {edges[k].target : k \in touching}
       IN  /\ \A i \in 1 .. Len(nodes) :
                 nodes[i].id \notin emphasized => nodes[i].opacity = DimNode
           /\ \A k \in 1 .. Len(edges) :
                 k \notin touching => edges[k].opacity = DimEdge

\* C36: once the rest of the graph is de-emphasized for the selected node,
\* it stays so while the selection stays and the node is displayed, also when
\* a layout call resolves and replaces the displayed nodes and edges.
C36_DeemphasisLastsWithSelection ==
    [][(Deemphasized /\ selectedComponentId' = selectedComponentId
                     /\ selectedComponentId' \in SeqIds(nodes'))
          => Deemphasized']_vars

\* C39: at most one fit-view timer is pending at any time, so fitView fires
\* at most once after the last layout result, whatever the order in which
\* overlapping layout calls complete.
C39_OneFitViewTimer ==
    (IF timerPending THEN 1 ELSE 0) + orphanTimers <= 1

\* The drill position, and what drillUp makes of one: the function drillUp
\* computes on (drillLevel, breadcrumbs), applied times times.
ViewPosition == [drillLevel |-> drillLevel, breadcrumbs |-> breadcrumbs]
Top == [drillLevel |-> NULL, breadcrumbs |-> <<>>]
drillUpOf(v) ==
    IF Len(v.breadcrumbs) <= 1
    THEN Top
    ELSE [drillLevel |-> v.breadcrumbs[Len(v.breadcrumbs) - 1].id,
          breadcrumbs |-> SubSeq(v.breadcrumbs, 1, Len(v.breadcrumbs) - 1)]
RECURSIVE drillUpTimes(_, _)
drillUpTimes(v, times) ==
    IF times = 0 THEN v ELSE drillUpTimes(drillUpOf(v), times - 1)
Max(a, b) == IF a >= b THEN a ELSE b

\* C37: with n breadcrumbs and 0 <= i < n, navigateToBreadcrumb(i) leaves the
\* drillLevel and breadcrumbs that n-1-i calls of drillUp leave (a drillUp
\* step leaves what drillUpOf computes); navigateToBreadcrumb(n-1) changes
\* neither.
C37_NavigateIsRepeatedDrillUp ==
    [][/\ last'.op = "drillUp" => ViewPosition' = drillUpOf(ViewPosition)
       /\ (last'.op = "navigateToBreadcrumb" /\ 0 <= last'.arg
               /\ last'.arg < Len(breadcrumbs)) =>
            /\ last'.outcome = "ok"
            /\ ViewPosition' =
                  drillUpTimes(ViewPosition, Len(breadcrumbs) - 1 - last'.arg)
            /\ last'.arg = Len(breadcrumbs) - 1 => ViewPosition' = ViewPosition]_vars

\* navigateToBreadcrumb(0) was called on a trail of at least three crumbs:
\* it stands for two or more drillUp calls.
C37_Witness ==
    /\ last.op = "navigateToBreadcrumb"
    /\ last.outcome = "ok"
    /\ last.arg = 0
    /\ last.trail >= 3
    /\ Len(breadcrumbs) = 1
    /\ drillLevel = breadcrumbs[1].id

\* C38: from a drilled state with n breadcrumbs, max(1, n) calls of drillUp
\* end at Top and fewer do not; a drillUp step leaves what drillUpOf
\* computes, strictly shortens a non-empty trail, and at Top stays at Top.
C38_DrillUpReachesTop ==
    [][/\ drillLevel # NULL =>
            LET n == Max(1, Len(breadcrumbs)) IN
            /\ drillUpTimes(ViewPosition, n) = Top
            /\ \A k \in 0 .. n - 1 : drillUpTimes(ViewPosition, k) # Top
       /\ last'.op = "drillUp" =>
            /\ ViewPosition' = drillUpOf(ViewPosition)
            /\ breadcrumbs # <<>> => Len(breadcrumbs') < Len(breadcrumbs)
            /\ ViewPosition = Top => ViewPosition' = Top]_vars

\* drillUp was called on a trail of two or more crumbs and shortened it by
\* one, staying drilled.
C38_Witness ==
    /\ last.op = "drillUp"
    /\ last.trail >= 2
    /\ Len(breadcrumbs) = last.trail - 1
    /\ drillLevel # NULL

RoundTripDone == roundTrip # None /\ roundTrip[1].up

\* C3 as stated: drillInto(X) then drillUp() restores drillLevel and
\* breadcrumbs, for every X with substructure.
C3_RoundTripAnyComponent ==
    RoundTripDone =>
        /\ drillLevel = roundTrip[1].level
        /\ breadcrumbs = roundTrip[1].crumbs

\* C3 amended: drillInto(X) then drillUp() leaves drillLevel at the parent of
\* X in the tree (null for a root) and breadcrumbs at the root-to-parent
\* path; the pre-drill values are restored when X is a child of the
\* component drilled into before (a root when at Top).
C3_RoundTripToParent ==
    RoundTripDone =>
        /\ drillLevel = ParentId(roundTrip[1].x)
        /\ drillLevel # NULL => IsRootPath(breadcrumbs, drillLevel)
        /\ drillLevel = NULL => breadcrumbs = <<>>
        /\ ParentId(roundTrip[1].x) = roundTrip[1].level =>
              /\ drillLevel = roundTrip[1].level
              /\ breadcrumbs = roundTrip[1].crumbs

C3_Witness ==
    /\ RoundTripDone
    /\ roundTrip[1].level # NULL
    /\ ParentId(roundTrip[1].x) = roundTrip[1].level

\* C4: every relationship returned by getComponentRelationships comes from
\* the loaded list and has both endpoints among the visible components.
C4_RelationshipContainment ==
    LET rels == getComponentRelationships
        visibleIds == SeqIds(getVisibleComponents)
    IN  \A i \in 1 .. Len(rels) :
            /\ rels[i].source \in visibleIds
            /\ rels[i].target \in visibleIds
            /\ \E k \in 1 .. Len(Arch.relationships) : Arch.relationships[k] = rels[i]

C4_Witness ==
    /\ drillLevel # NULL
    /\ Len(getComponentRelationships) >= 1
    /\ Len(getComponentRelationships) < Len(Arch.relationships)
    /\ \E k \in 1 .. Len(Arch.relationships) :
          /\ Arch.relationships[k].source \in SeqIds(getVisibleComponents)
          /\ Arch.relationships[k].target \notin SeqIds(getVisibleComponents)

C6_DrillUp ==
    [][last'.op = "drillUp" =>
        LET n == Len(breadcrumbs) IN
        IF n <= 1
        THEN drillLevel' = NULL /\ breadcrumbs' = <<>>
        ELSE /\ drillLevel' = breadcrumbs[n - 1].id
             /\ Len(breadcrumbs') = n - 1
             /\ \A i \in 1 .. n - 1 : breadcrumbs'[i] = breadcrumbs[i]]_vars

C6_Witness ==
    /\ last.op = "drillUp"
    /\ Len(breadcrumbs) >= 2

\* C7: navigateToBreadcrumb(index) resets to Top for index < 0, and for
\* 0 <= index < length drills to breadcrumbs[index] and keeps index+1 entries.
C7_NavigateToBreadcrumb ==
    [][last'.op = "navigateToBreadcrumb" =>
        LET index == last'.arg IN
        /\ index < 0 => drillLevel' = NULL /\ breadcrumbs' = <<>>
        /\ (0 <= index /\ index < Len(breadcrumbs)) =>
              /\ drillLevel' = breadcrumbs[index + 1].id
              /\ Len(breadcrumbs') = index + 1
              /\ \A i \in 1 .. index + 1 : breadcrumbs'[i] = breadcrumbs[i]]_vars

C7_Witness ==
    /\ last.op = "navigateToBreadcrumb"
    /\ last.outcome = "ok"
    /\ last.arg >= 1
    /\ Len(breadcrumbs) = last.arg + 1

\* id names a component (of the loaded tree, once loaded) without children
\* and without files.
IsBareLeafId(id) ==
    \E c \in (IF Loaded THEN TreeComponents ELSE AllComponents) :
        c.id = id /\ ~hasSubstructure(c)

\* C8: drillInto on a component with no children and no files changes none
\* of drillLevel, breadcrumbs, selectedComponentId and detailItem.
C8_DrillIntoLeafIsNoOp ==
    [][(last'.op = "drillInto" /\ IsBareLeafId(last'.arg)) =>
        UNCHANGED <<drillLevel, breadcrumbs, selectedComponentId, detailItem>>]_vars

C8_Witness ==
    /\ last.op = "drillInto"
    /\ IsBareLeafId(last.arg)
    /\ Loaded
    /\ drillLevel # NULL
    /\ selectedComponentId # NULL
    /\ detailItem # None

\* C9: selectComponent(id) leaves drillLevel and breadcrumbs unchanged, for
\* an existing id, an unknown id and null.
C9_SelectKeepsDrill ==
    [][last'.op = "selectComponent" => UNCHANGED <<drillLevel, breadcrumbs>>]_vars

C9_Witness ==
    /\ last.op = "selectComponent"
    /\ last.arg = NULL
    /\ Loaded
    /\ drillLevel # NULL

====
